---------------------------- MODULE Spec2Model ----------------------------
(***************************************************************************)
(* Model of the CrediScore fraud detection service                         *)
(* (backend/fraud-detection-service/main.py).                              *)
(*                                                                         *)
(* A Python str is a sequence of one-character strings, so that slicing,   *)
(* lower(), split(), substring tests and the regular expressions are       *)
(* computed character by character as the code computes them.  A float is  *)
(* an exact rational: an integer where the code only ever holds an         *)
(* integral value, a record [num, den] where it divides.                   *)
(***************************************************************************)
EXTENDS Integers, Sequences, FiniteSets, TLC

(***************************************************************************)
(* Bounds of the model.                                                    *)
(***************************************************************************)
\* Generated review texts hold at most MaxTokens vocabulary tokens.
MaxTokens == 2
\* The strings of the similarity harness hold at most MaxLen characters.
MaxLen == 3

(***************************************************************************)
(* Characters and the str methods the code uses.                           *)
(***************************************************************************)
UpperChars == {"A","B","C","D","E","F","G","H","I","J","K","L","M",
               "N","O","P","Q","R","S","T","U","V","W","X","Y","Z"}
LowerChars == {"a","b","c","d","e","f","g","h","i","j","k","l","m",
               "n","o","p","q","r","s","t","u","v","w","x","y","z"}
DigitChars == {"0","1","2","3","4","5","6","7","8","9"}
\* \w of the re module, on the ASCII characters of the model
WordChars == UpperChars \cup LowerChars \cup DigitChars \cup {"_"}
\* the characters str.split() and str.strip() treat as whitespace
Whitespace == {" ", "\t", "\n"}

LowerOf ==
  "A" :> "a" @@ "B" :> "b" @@ "C" :> "c" @@ "D" :> "d" @@ "E" :> "e" @@
  "F" :> "f" @@ "G" :> "g" @@ "H" :> "h" @@ "I" :> "i" @@ "J" :> "j" @@
  "K" :> "k" @@ "L" :> "l" @@ "M" :> "m" @@ "N" :> "n" @@ "O" :> "o" @@
  "P" :> "p" @@ "Q" :> "q" @@ "R" :> "r" @@ "S" :> "s" @@ "T" :> "t" @@
  "U" :> "u" @@ "V" :> "v" @@ "W" :> "w" @@ "X" :> "x" @@ "Y" :> "y" @@
  "Z" :> "z"

DigitVal ==
  "0" :> 0 @@ "1" :> 1 @@ "2" :> 2 @@ "3" :> 3 @@ "4" :> 4 @@
  "5" :> 5 @@ "6" :> 6 @@ "7" :> 7 @@ "8" :> 8 @@ "9" :> 9

Min2(a, b) == IF a <= b THEN a ELSE b
Max2(a, b) == IF a >= b THEN a ELSE b

\* s.lower()
Lower(s) == [i \in 1..Len(s) |-> IF s[i] \in UpperChars THEN LowerOf[s[i]] ELSE s[i]]

\* sub in s
Contains(s, sub) ==
  \E i \in 1..(Len(s) - Len(sub) + 1) : SubSeq(s, i, i + Len(sub) - 1) = sub

\* s.split(): the maximal runs of non-whitespace characters, in order
RECURSIVE SplitScan(_, _, _, _)
SplitScan(s, i, cur, acc) ==
  IF i > Len(s)
    THEN (IF Len(cur) = 0 THEN acc ELSE Append(acc, cur))
    ELSE IF s[i] \in Whitespace
           THEN SplitScan(s, i + 1, <<>>, IF Len(cur) = 0 THEN acc ELSE Append(acc, cur))
           ELSE SplitScan(s, i + 1, Append(cur, s[i]), acc)
Split(s) == SplitScan(s, 1, <<>>, <<>>)

\* len(s.strip())
StripLen(s) ==
  LET inked == {i \in 1..Len(s) : s[i] \notin Whitespace}
  IN IF inked = {} THEN 0
     ELSE (CHOOSE i \in inked : \A j \in inked : j <= i)
          - (CHOOSE i \in inked : \A j \in inked : i <= j) + 1

\* re.search(r'\b(a1|a2|...)\b', text, re.IGNORECASE): some alternative
\* occurs, letter case ignored, with a word boundary on each side.  Every
\* alternative of the code's patterns begins and ends with a letter, so a
\* boundary is the start or end of the text or a non-word neighbour.
WordSearch(alts, text) ==
  LET t == Lower(text)
  IN \E a \in alts : \E i \in 1..(Len(t) - Len(a) + 1) :
        /\ SubSeq(t, i, i + Len(a) - 1) = a
        /\ (i = 1 \/ t[i - 1] \notin WordChars)
        /\ (i + Len(a) - 1 = Len(t) \/ t[i + Len(a)] \notin WordChars)

\* re.search(r'[set]{n,}', text): n consecutive characters of the set
RunSearch(set, n, text) ==
  \E i \in 1..(Len(text) - n + 1) : \A k \in 0..(n - 1) : text[i + k] \in set

(***************************************************************************)
(* The pattern tables (main.py 56-71).                                     *)
(***************************************************************************)
SUSPICIOUS_PATTERNS == <<
  {<<"f","a","k","e">>, <<"s","c","a","m">>, <<"f","r","a","u","d">>, <<"c","h","e","a","t">>, <<"s","t","e","a","l">>, <<"r","o","b">>},
  {<<"t","o","o"," ","g","o","o","d"," ","t","o"," ","b","e"," ","t","r","u","e">>, <<"a","m","a","z","i","n","g">>, <<"i","n","c","r","e","d","i","b","l","e">>, <<"p","e","r","f","e","c","t">>},
  {<<"a","v","o","i","d">>, <<"s","t","a","y"," ","a","w","a","y">>, <<"d","o","n","'","t"," ","g","o">>, <<"t","e","r","r","i","b","l","e">>, <<"a","w","f","u","l">>, <<"h","o","r","r","i","b","l","e">>},
  {<<"p","a","i","d"," ","r","e","v","i","e","w">>, <<"s","p","o","n","s","o","r","e","d">>, <<"a","d","v","e","r","t","i","s","e","m","e","n","t">>},
  {<<"c","l","i","c","k"," ","h","e","r","e">>, <<"v","i","s","i","t">>, <<"c","a","l","l"," ","n","o","w">>, <<"l","i","m","i","t","e","d"," ","t","i","m","e">>} >>

\* re.search(SUSPICIOUS_PATTERNS[k], text, re.IGNORECASE)
SuspiciousSearch(k, text) == WordSearch(SUSPICIOUS_PATTERNS[k], text)

\* re.search(SPAM_INDICATORS[k], text), case sensitive
SPAM_INDICATORS(k, text) ==
  CASE k = 1 -> RunSearch(UpperChars, 3, text)          \* [A-Z]{3,}
    [] k = 2 -> RunSearch({"!"}, 3, text)               \* !{3,}
    [] k = 3 -> RunSearch({"$"}, 1, text)               \* \$+
    [] k = 4 -> Contains(text, <<"w","w","w",".">>) \/ Contains(text, <<"h","t","t","p">>)  \* www\.|http
    [] k = 5 -> RunSearch(DigitChars, 10, text)         \* \d{10,}

NumPatterns == 5

(***************************************************************************)
(* calculate_string_similarity and levenshtein_distance (main.py 212-246). *)
(***************************************************************************)
Min3(a, b, c) == Min2(a, Min2(b, c))

\* FillRow with the substitution's + 1 forgotten
RECURSIVE FillRowFreeSubstitution(_, _, _, _, _)
FillRowFreeSubstitution(str1, str2, i, prev, cur) ==
  IF Len(cur) = Len(str2) + 1 THEN cur
  ELSE LET j == Len(cur)
           cell == IF str1[i] = str2[j]
                     THEN prev[j]
                     ELSE Min3(prev[j + 1] + 1, cur[j] + 1, prev[j])
       IN FillRowFreeSubstitution(str1, str2, i, prev, Append(cur, cell))

\* Row i of the matrix from row i-1; a row is the sequence matrix[i][0..n],
\* so matrix[i][j] is row[j + 1].
RECURSIVE FillRow(_, _, _, _, _)
FillRow(str1, str2, i, prev, cur) ==
  IF Len(cur) = Len(str2) + 1 THEN cur
  ELSE LET j == Len(cur)
           cell == IF str1[i] = str2[j]
                     THEN prev[j]
                     ELSE Min3(prev[j + 1] + 1, cur[j] + 1, prev[j] + 1)
       IN FillRow(str1, str2, i, prev, Append(cur, cell))

RECURSIVE FillMatrix(_, _, _, _)
FillMatrix(str1, str2, i, prev) ==
  IF i > Len(str1) THEN prev
  ELSE FillMatrix(str1, str2, i + 1, FillRow(str1, str2, i, prev, <<i>>))

levenshtein_distance(str1, str2) ==
  FillMatrix(str1, str2, 1, [j \in 1..(Len(str2) + 1) |-> j - 1])[Len(str2) + 1]

\* A float that is a quotient of two integers, kept exact.
Rat(n, d) == [num |-> n, den |-> d]
RatLt(p, q) == p.num * q.den < q.num * p.den
RatEq(p, q) == p.num * q.den = q.num * p.den

\* calculate_string_similarity normalised by its first argument's length
similarity_by_first_length(str1, str2) ==
  IF Len(str1) = 0 \/ Len(str2) = 0 THEN Rat(0, 1)
  ELSE LET longer  == IF Len(str1) > Len(str2) THEN str1 ELSE str2
           shorter == IF Len(str1) > Len(str2) THEN str2 ELSE str1
       IN Rat(Len(str1) - levenshtein_distance(longer, shorter), Len(str1))

calculate_string_similarity(str1, str2) ==
  IF Len(str1) = 0 \/ Len(str2) = 0 THEN Rat(0, 1)
  ELSE LET longer  == IF Len(str1) > Len(str2) THEN str1 ELSE str2
           shorter == IF Len(str1) > Len(str2) THEN str2 ELSE str1
       IN IF Len(longer) = 0 THEN Rat(1, 1)
          ELSE Rat(Len(longer) - levenshtein_distance(longer, shorter), Len(longer))

(***************************************************************************)
(* calculate_text_quality_score (main.py 73-114).  The score only ever     *)
(* holds an integral float, so it is an integer here.  The comparison      *)
(* unique_words > len(words) * 0.7 is made exactly (10u > 7n), which is    *)
(* what the float comparison yields for fewer than 90 words.               *)
(***************************************************************************)
Elements(seq) == {seq[i] : i \in 1..Len(seq)}

calculate_text_quality_score(text) ==
  IF Len(text) = 0 \/ StripLen(text) < 10 THEN 0
  ELSE LET length == Len(text)
           lengthScore == IF 50 <= length /\ length <= 200 THEN 30
                          ELSE IF (20 <= length /\ length < 50)
                                  \/ (200 < length /\ length <= 500) THEN 20
                          ELSE 10
           \* len(text.split('.')) > 1
           sentenceScore == IF Contains(text, <<".">>) THEN 20 ELSE 0
           words == Split(Lower(text))
           unique_words == Cardinality(Elements(words))
           varietyScore == IF 10 * unique_words > 7 * Len(words) THEN 20 ELSE 0
           punctScore == IF \E p \in {".", "!", "?"} : Contains(text, <<p>>)
                           THEN 10 ELSE 0
           suspicious == Cardinality({k \in 1..NumPatterns : SuspiciousSearch(k, text)})
           spam == Cardinality({k \in 1..NumPatterns : SPAM_INDICATORS(k, text)})
           score == lengthScore + sentenceScore + varietyScore + punctScore
                    - 15 * suspicious - 10 * spam
       IN Max2(0, Min2(100, score))

(***************************************************************************)
(* analyze_review_sentiment (main.py 116-137).                             *)
(***************************************************************************)
positive_words == {<<"g","o","o","d">>, <<"g","r","e","a","t">>, <<"e","x","c","e","l","l","e","n","t">>, <<"a","m","a","z","i","n","g">>,
                   <<"w","o","n","d","e","r","f","u","l">>, <<"f","a","n","t","a","s","t","i","c">>, <<"l","o","v","e">>, <<"b","e","s","t">>}
negative_words == {<<"b","a","d">>, <<"t","e","r","r","i","b","l","e">>, <<"a","w","f","u","l">>, <<"h","o","r","r","i","b","l","e">>,
                   <<"w","o","r","s","t">>, <<"h","a","t","e">>, <<"d","i","s","g","u","s","t","i","n","g">>, <<"d","i","s","a","p","p","o","i","n","t","e","d">>}

\* analyze_review_sentiment without the max(0.0, ...) on neutral
sentiment_unclamped(text) ==
  LET text_lower == Lower(text)
      positive_count == Cardinality({w \in positive_words : Contains(text_lower, w)})
      negative_count == Cardinality({w \in negative_words : Contains(text_lower, w)})
      total_words == Len(Split(text))
  IN IF total_words = 0
       THEN [positive |-> Rat(0, 1), negative |-> Rat(0, 1), neutral |-> Rat(1, 1)]
       ELSE [positive |-> Rat(positive_count, total_words),
             negative |-> Rat(negative_count, total_words),
             neutral  |-> Rat(total_words - positive_count - negative_count,
                              total_words)]

analyze_review_sentiment(text) ==
  LET text_lower == Lower(text)
      positive_count == Cardinality({w \in positive_words : Contains(text_lower, w)})
      negative_count == Cardinality({w \in negative_words : Contains(text_lower, w)})
      total_words == Len(Split(text))
  IN IF total_words = 0
       THEN [positive |-> Rat(0, 1), negative |-> Rat(0, 1), neutral |-> Rat(1, 1)]
       ELSE [positive |-> Rat(positive_count, total_words),
             negative |-> Rat(negative_count, total_words),
             \* max(0.0, 1.0 - positive_score - negative_score)
             neutral  |-> Rat(Max2(0, total_words - positive_count - negative_count),
                              total_words)]

(***************************************************************************)
(* detect_review_patterns (main.py 139-173).  A reason is its message and   *)
(* the values formatted into it.                                           *)
(***************************************************************************)
Reason(msg, arg) == [msg |-> msg, arg |-> arg]

PatternIndices == [k \in 1..NumPatterns |-> k]

generic_phrases == {<<"g","o","o","d"," ","s","e","r","v","i","c","e">>, <<"n","i","c","e"," ","p","l","a","c","e">>, <<"w","o","u","l","d"," ","r","e","c","o","m","m","e","n","d">>,
                    <<"g","r","e","a","t"," ","e","x","p","e","r","i","e","n","c","e">>, <<"b","a","d"," ","s","e","r","v","i","c","e">>,
                    <<"t","e","r","r","i","b","l","e"," ","e","x","p","e","r","i","e","n","c","e">>, <<"w","o","u","l","d"," ","n","o","t"," ","r","e","c","o","m","m","e","n","d">>}

detect_review_patterns(text) ==
  LET words == Split(Lower(text))
      freq(w) == Cardinality({i \in 1..Len(words) : words[i] = w})
      \* max(word_freq.values()) > len(words) * 0.3, made exactly
      repeated == /\ Len(words) > 10
                  /\ \E w \in Elements(words) : 10 * freq(w) > 3 * Len(words)
      susp == SelectSeq(PatternIndices, LAMBDA k : SuspiciousSearch(k, text))
      spam == SelectSeq(PatternIndices, LAMBDA k : SPAM_INDICATORS(k, text))
      generic == \E phrase \in generic_phrases : Contains(Lower(text), phrase)
  IN (IF repeated THEN <<Reason("Excessive word repetition", <<>>)>> ELSE <<>>)
     \o [i \in 1..Len(susp) |-> Reason("Suspicious language pattern", <<susp[i]>>)]
     \o [i \in 1..Len(spam) |-> Reason("Spam indicator", <<spam[i]>>)]
     \o (IF generic THEN <<Reason("Generic review phrases", <<>>)>> ELSE <<>>)

(***************************************************************************)
(* Optional fields of the pydantic models (main.py 24-44): None, or a      *)
(* value.  Python's truth test of an Optional[str] is false for None and   *)
(* for the empty string, that of an Optional[float] for None and for 0.    *)
(***************************************************************************)
NoneStr == [some |-> FALSE, val |-> <<>>]
NoneNum == [some |-> FALSE, val |-> 0]
Some(v) == [some |-> TRUE, val |-> v]

TruthyStr(opt) == opt.some /\ Len(opt.val) > 0
TruthyNum(opt) == opt.some /\ opt.val # 0

(***************************************************************************)
(* datetime (main.py 201-205).  A datetime is its proleptic Gregorian      *)
(* ordinal day, the second of that day, and its tzinfo (aware, with the    *)
(* UTC offset in minutes, or naive).  fromisoformat is modelled on the     *)
(* forms YYYY-MM-DD and YYYY-MM-DD*HH:MM[:SS][+HH:MM|-HH:MM], the forms    *)
(* the date strings of the model have; every other string of the model is  *)
(* one that fromisoformat rejects with ValueError.                         *)
(***************************************************************************)
\* date.replace('Z', '+00:00'): every 'Z' of the string is replaced
RECURSIVE ReplaceZ(_)
ReplaceZ(s) ==
  IF Len(s) = 0 THEN <<>>
  ELSE (IF Head(s) = "Z" THEN <<"+","0","0",":","0","0">> ELSE <<Head(s)>>) \o ReplaceZ(Tail(s))

AllDigits(s, i, j) == \A k \in i..j : s[k] \in DigitChars
Num2(s, i) == 10 * DigitVal[s[i]] + DigitVal[s[i + 1]]
Num4(s, i) == 100 * Num2(s, i) + Num2(s, i + 2)

IsLeap(y) == y % 4 = 0 /\ (y % 100 # 0 \/ y % 400 = 0)
DaysInMonth(y, m) ==
  IF m = 2 THEN (IF IsLeap(y) THEN 29 ELSE 28)
  ELSE IF m \in {4, 6, 9, 11} THEN 30 ELSE 31
RECURSIVE DaysBeforeMonth(_, _)
DaysBeforeMonth(y, m) ==
  IF m = 1 THEN 0 ELSE DaysBeforeMonth(y, m - 1) + DaysInMonth(y, m - 1)
DaysBeforeYear(y) ==
  (y - 1) * 365 + ((y - 1) \div 4) - ((y - 1) \div 100) + ((y - 1) \div 400)
\* date.toordinal()
Ordinal(y, m, d) == DaysBeforeYear(y) + DaysBeforeMonth(y, m) + d

DateTime(y, mo, d, h, mi, sec) ==
  [days |-> Ordinal(y, mo, d), secs |-> 3600 * h + 60 * mi + sec,
   aware |-> FALSE, offset |-> 0]

ParseError == [ok |-> FALSE, days |-> 0, secs |-> 0, aware |-> FALSE, offset |-> 0]

\* the date part, s[1..10]
DatePartOK(s) ==
  /\ Len(s) >= 10
  /\ AllDigits(s, 1, 4) /\ s[5] = "-" /\ AllDigits(s, 6, 7) /\ s[8] = "-"
  /\ AllDigits(s, 9, 10)
  /\ Num4(s, 1) >= 1
  /\ Num2(s, 6) \in 1..12
  /\ Num2(s, 9) \in 1..DaysInMonth(Num4(s, 1), Num2(s, 6))

\* the time part t = HH:MM[:SS], then the offset tz = "" or +HH:MM or -HH:MM
TimePartOK(t, tz) ==
  /\ Len(t) \in {5, 8}
  /\ AllDigits(t, 1, 2) /\ t[3] = ":" /\ AllDigits(t, 4, 5)
  /\ Num2(t, 1) <= 23 /\ Num2(t, 4) <= 59
  /\ Len(t) = 8 => (t[6] = ":" /\ AllDigits(t, 7, 8) /\ Num2(t, 7) <= 59)
  /\ Len(tz) \in {0, 6}
  /\ Len(tz) = 6 => /\ tz[1] \in {"+", "-"}
                    /\ AllDigits(tz, 2, 3) /\ tz[4] = ":" /\ AllDigits(tz, 5, 6)
                    /\ Num2(tz, 2) <= 23 /\ Num2(tz, 5) <= 59

fromisoformat(s) ==
  IF ~DatePartOK(s) THEN ParseError
  ELSE LET day == Ordinal(Num4(s, 1), Num2(s, 6), Num2(s, 9))
       IN IF Len(s) = 10
            THEN [ok |-> TRUE, days |-> day, secs |-> 0, aware |-> FALSE, offset |-> 0]
          ELSE \* s[11] is the separator, any one character
            LET rest == SubSeq(s, 12, Len(s))
                signs == {i \in 1..Len(rest) : rest[i] \in {"+", "-"}}
                cut == IF signs = {} THEN Len(rest) + 1
                       ELSE CHOOSE i \in signs : \A j \in signs : i <= j
                t == SubSeq(rest, 1, cut - 1)
                tz == SubSeq(rest, cut, Len(rest))
            IN IF ~TimePartOK(t, tz) THEN ParseError
               ELSE [ok |-> TRUE, days |-> day,
                     secs |-> 3600 * Num2(t, 1) + 60 * Num2(t, 4)
                              + (IF Len(t) = 8 THEN Num2(t, 7) ELSE 0),
                     aware |-> Len(tz) = 6,
                     offset |-> IF Len(tz) = 6
                                  THEN (IF tz[1] = "-" THEN -1 ELSE 1)
                                       * (60 * Num2(tz, 2) + Num2(tz, 5))
                                  ELSE 0]

\* a > b, for two naive datetimes
Later(a, b) == a.days > b.days \/ (a.days = b.days /\ a.secs > b.secs)
\* (a - b).days: the whole days of the timedelta, rounded down
DeltaDays(a, b) == (a.days - b.days) - (IF a.secs < b.secs THEN 1 ELSE 0)

(***************************************************************************)
(* validate_receipt_consistency (main.py 175-210).  The result is the      *)
(* list of issues, or the exception that leaves the function: comparing    *)
(* an offset-aware receipt_date with the naive datetime.now() raises       *)
(* TypeError, which the except ValueError clause does not catch.           *)
(***************************************************************************)
\* f"{x:.2f}" of the quotient x = num/den: its hundredths, round-half-even
Fmt2(x) ==
  LET q == (100 * x.num) \div x.den
      r == (100 * x.num) % x.den
  IN IF 2 * r > x.den \/ (2 * r = x.den /\ q % 2 = 1) THEN q + 1 ELSE q

validate_receipt_consistency(receipt_data, business_details, now) ==
  LET name_similarity ==
        calculate_string_similarity(Lower(receipt_data.businessName.val),
                                    Lower(business_details.name))
      nameIssues ==
        IF TruthyStr(receipt_data.businessName) /\ Len(business_details.name) > 0
           /\ RatLt(name_similarity, Rat(7, 10))
          THEN <<Reason("Business name mismatch", <<Fmt2(name_similarity)>>)>>
          ELSE <<>>
      address_similarity ==
        calculate_string_similarity(Lower(receipt_data.businessAddress.val),
                                    Lower(business_details.address.val))
      addressIssues ==
        IF TruthyStr(receipt_data.businessAddress) /\ TruthyStr(business_details.address)
           /\ RatLt(address_similarity, Rat(6, 10))
          THEN <<Reason("Address mismatch", <<Fmt2(address_similarity)>>)>>
          ELSE <<>>
      amountIssues ==
        IF TruthyNum(receipt_data.amount) /\ receipt_data.amount.val <= 0
          THEN <<Reason("Invalid amount in receipt", <<>>)>>
          ELSE <<>>
      receipt_date == fromisoformat(ReplaceZ(receipt_data.date.val))
      typeError == TruthyStr(receipt_data.date) /\ receipt_date.ok /\ receipt_date.aware
      dateIssues ==
        IF ~TruthyStr(receipt_data.date) THEN <<>>
        ELSE IF ~receipt_date.ok
          THEN <<Reason("Invalid date format in receipt", <<>>)>>
        ELSE IF Later(receipt_date, now)
          THEN <<Reason("Future date in receipt", <<>>)>>
        ELSE IF DeltaDays(now, receipt_date) > 365
          THEN <<Reason("Receipt too old (>1 year)", <<>>)>>
        ELSE <<>>
  IN IF typeError
       THEN [raised |-> "TypeError", issues |-> <<>>]
       ELSE [raised |-> "",
             issues |-> nameIssues \o addressIssues \o amountIssues \o dateIssues]

(***************************************************************************)
(* detect_fraud (main.py 256-316), one operator per check of the handler.  *)
(* acc holds the handler's two accumulators, fraud_reasons and risk_score. *)
(***************************************************************************)
Flag(acc, reasons, delta) ==
  [fraud_reasons |-> acc.fraud_reasons \o reasons,
   risk_score |-> acc.risk_score + delta]

\* main.py 266-269
CheckTextQuality(acc, review_text) ==
  LET text_quality == calculate_text_quality_score(review_text)
  IN IF text_quality < 30
       THEN Flag(acc, <<Reason("Low text quality score", <<text_quality>>)>>, 25)
       ELSE acc

\* main.py 272-274
CheckPatterns(acc, review_text) ==
  LET patterns == detect_review_patterns(review_text)
  IN Flag(acc, patterns, Len(patterns) * 10)

\* CheckSentiment raising the score without recording the reason
CheckSentimentSilent(acc, sentiment_) ==
  IF RatLt(Rat(8, 10), sentiment_.neutral) THEN Flag(acc, <<>>, 15) ELSE acc

\* main.py 277-280
CheckSentiment(acc, sentiment_) ==
  IF RatLt(Rat(8, 10), sentiment_.neutral)
    THEN Flag(acc, <<Reason("Overly neutral sentiment", <<>>)>>, 15)
    ELSE acc

\* CheckReputation with <= for <
CheckReputationLe(acc, user_reputation) ==
  IF user_reputation <= 30
    THEN Flag(acc, <<Reason("Low user reputation", <<user_reputation>>)>>, 20)
    ELSE acc

\* main.py 283-285
CheckReputation(acc, user_reputation) ==
  IF user_reputation < 30
    THEN Flag(acc, <<Reason("Low user reputation", <<user_reputation>>)>>, 20)
    ELSE acc

\* main.py 293-294
CheckReceipt(acc, receipt_issues) ==
  Flag(acc, receipt_issues, Len(receipt_issues) * 15)

\* main.py 297-299; the confidence is a number of hundredths
CheckReceiptConfidence(acc, confidence) ==
  IF RatLt(confidence, Rat(5, 10))
    THEN Flag(acc, <<Reason("Low receipt confidence", <<Fmt2(confidence)>>)>>, 20)
    ELSE acc

\* IsFraudulent with >= for >
IsFraudulentGe(risk_score) == risk_score >= 60

\* main.py 302
IsFraudulent(risk_score) == risk_score > 60

\* main.py 303: min(risk_score / 100, 1.0)
Confidence(risk_score) ==
  IF RatLt(Rat(1, 1), Rat(risk_score, 100)) THEN Rat(1, 1) ELSE Rat(risk_score, 100)

NoResponse ==
  [status |-> 0, isFraudulent |-> FALSE, confidence |-> Rat(0, 1),
   fraudReasons |-> <<>>, riskScore |-> 0]

\* main.py 307-312
FraudDetectionResponse(acc) ==
  [status |-> 200, isFraudulent |-> IsFraudulent(acc.risk_score),
   confidence |-> Confidence(acc.risk_score),
   fraudReasons |-> acc.fraud_reasons, riskScore |-> acc.risk_score]

\* main.py 314-316: HTTPException(status_code=500), no partial result
ScoringFailedResponse == [NoResponse EXCEPT !.status = 500]

\* The whole handler on one request, the clock reading clock.
detect_fraud(req, clock) ==
  LET validated == validate_receipt_consistency(req.receipt_data,
                                                req.business_details, clock)
      a1 == CheckTextQuality([fraud_reasons |-> <<>>, risk_score |-> 0],
                             req.review_text)
      a2 == CheckPatterns(a1, req.review_text)
      a3 == CheckSentiment(a2, analyze_review_sentiment(req.review_text))
      a4 == CheckReputation(a3, req.user_reputation)
      a5 == CheckReceipt(a4, validated.issues)
      a6 == CheckReceiptConfidence(a5, req.receipt_data.confidence)
  IN IF validated.raised # "" THEN ScoringFailedResponse
     ELSE FraudDetectionResponse(a6)

(***************************************************************************)
(* The requests of the model.                                              *)
(***************************************************************************)
Vocabulary == {<<"g","o","o","d">>, <<"g","o","o","d",",","g","r","e","a","t">>, <<"b","a","d">>, <<"o","k",".">>, <<"s","c","a","m","!">>}

\* ' '.join(tokens)
RECURSIVE Join(_)
Join(tokens) ==
  IF Len(tokens) = 0 THEN <<>>
  ELSE IF Len(tokens) = 1 THEN tokens[1]
  ELSE tokens[1] \o <<" ">> \o Join(Tail(tokens))

GeneratedTexts ==
  {Join(tokens) : tokens \in UNION {[1..n -> Vocabulary] : n \in 0..MaxTokens}}

TextOk == <<"o","k">>
TextFine == <<"T","h","e"," ","f","o","o","d"," ","w","a","s"," ","f","r","e","s","h"," ","a","n","d"," ","t","h","e"," ","s","t","a","f","f"," ","w","e","r","e"," ","f","r","i","e","n","d","l","y","."," ","W","e"," ","w","i","l","l"," ","c","o","m","e"," ","b","a","c","k"," ","s","o","o","n",".">>
SampleTexts ==
  {TextOk, TextFine,
   <<"S","C","A","M","!","!","!"," ","w","w","w",".","x",".","c","o","m"," ","C","A","L","L"," ","N","O","W"," ","$","$","$">>,
   <<"g","o","o","d"," ","g","o","o","d"," ","g","o","o","d"," ","g","o","o","d"," ","g","o","o","d"," ","g","o","o","d"," ","g","o","o","d"," ","g","o","o","d"," ","g","o","o","d"," ","g","o","o","d"," ","g","o","o","d"," ","f","o","o","d">>,
   <<"I"," ","l","o","v","e"," ","t","h","i","s"," ","p","l","a","c","e",","," ","t","h","e"," ","b","e","s","t"," ","p","i","z","z","a"," ","a","n","d"," ","g","r","e","a","t"," ","s","e","r","v","i","c","e","."," ","E","x","c","e","l","l","e","n","t"," ","s","t","a","f","f","!">>,
   <<"n","i","c","e"," ","p","l","a","c","e"," ","w","o","u","l","d"," ","r","e","c","o","m","m","e","n","d">>,
   <<"C","a","l","l"," ","n","o","w"," ","0","7","1","2","3","4","5","6","7","8"," ","f","o","r"," ","a"," ","l","i","m","i","t","e","d"," ","t","i","m","e"," ","o","f","f","e","r">>,
   <<" "," ">>}

Texts == GeneratedTexts \cup SampleTexts
CoreTexts == {TextOk}

Reputations == {0, 29, 30, 50}
CoreReputations == {29, 30}

JoesPizza == <<"J","o","e","'","s"," ","P","i","z","z","a">>
JoesPizzeria == <<"J","o","e","s"," ","P","i","z","z","e","r","i","a">>

ReceiptNames ==
  {NoneStr, Some(<<>>), Some(JoesPizzeria), Some(<<"J","O","E","'","S"," ","P","I","Z","Z","A">>)}
ReceiptAddresses == {NoneStr, Some(<<"9","9"," ","E","l","m"," ","R","d">>)}
ReceiptAmounts == {NoneNum, Some(0), Some(-5), Some(20)}

DateFuture == <<"2","0","2","5","-","0","6","-","1","6","T","1","2",":","0","0",":","0","0">>
DateFutureZ == <<"2","0","3","0","-","0","1","-","0","1","T","0","0",":","0","0",":","0","0","Z">>
DateStrings ==
  {DateFuture,                      \* one day after Now1
   <<"2","0","2","5","-","0","6","-","0","1">>,                  \* two weeks before Now1
   <<"2","0","2","4","-","0","6","-","1","5","T","1","1",":","0","0",":","0","0">>,         \* 365 days and one hour before Now1
   <<"2","0","2","4","-","0","6","-","1","4","T","1","2",":","0","0",":","0","0">>,         \* 366 days before Now1
   <<"2","0","2","3","-","0","1","-","0","1"," ","0","8",":","3","0">>,
   DateFutureZ,
   <<"2","0","2","4","-","0","1","-","0","1","T","0","0",":","0","0",":","0","0","Z">>,
   <<"2","0","2","5","-","0","6","-","0","1","T","1","0",":","0","0",":","0","0","+","0","3",":","0","0">>,
   <<"n","o","t","-","a","-","d","a","t","e">>,
   <<"2","0","2","5","-","1","3","-","0","1">>,
   <<>>}
ReceiptDates == {NoneStr} \cup {Some(d) : d \in DateStrings}
ReceiptConfidences == {Rat(49, 100), Rat(50, 100)}

Receipts ==
  [businessName : ReceiptNames, businessAddress : ReceiptAddresses,
   amount : ReceiptAmounts, date : ReceiptDates, confidence : ReceiptConfidences]

CoreReceipts ==
  {[businessName |-> Some(JoesPizza), businessAddress |-> NoneStr,
    amount |-> Some(20), date |-> Some(<<"2","0","2","5","-","0","6","-","0","1">>), confidence |-> Rat(90, 100)],
   [businessName |-> Some(<<"B","o","b","'","s"," ","B","u","r","g","e","r","s">>), businessAddress |-> Some(<<"9","9"," ","E","l","m"," ","R","d">>),
    amount |-> Some(-5), date |-> Some(<<"n","o","t","-","a","-","d","a","t","e">>), confidence |-> Rat(0, 100)],
   [businessName |-> NoneStr, businessAddress |-> NoneStr,
    amount |-> NoneNum, date |-> Some(DateFutureZ), confidence |-> Rat(50, 100)],
   [businessName |-> NoneStr, businessAddress |-> NoneStr,
    amount |-> NoneNum, date |-> NoneStr, confidence |-> Rat(49, 100)]}

CoreBusiness == [name |-> JoesPizza, address |-> Some(<<"1","2"," ","M","a","i","n"," ","S","t","r","e","e","t">>)]
Businesses == {CoreBusiness, [name |-> <<"B","o","b","'","s"," ","B","u","r","g","e","r","s">>, address |-> NoneStr]}

Requests ==
  [review_text : Texts, receipt_data : CoreReceipts,
   business_details : {CoreBusiness}, user_reputation : Reputations]
  \cup
  [review_text : CoreTexts, receipt_data : Receipts,
   business_details : Businesses, user_reputation : CoreReputations]

\* the readings of datetime.now(): naive local time
Now1 == DateTime(2025, 6, 15, 12, 0, 0)
Now2 == DateTime(2025, 6, 16, 12, 0, 0)
Nows == {Now1, Now2}

\* the strings the similarity harness draws from
SimAlphabet == {"a", "b"}
SimStrings == UNION {[1..n -> SimAlphabet] : n \in 0..MaxLen}

(***************************************************************************)
(* State.                                                                  *)
(***************************************************************************)
VARIABLES
  pc,              \* the handler's position
  request,         \* the FraudDetectionRequest being served
  fraud_reasons,   \* detect_fraud's local list
  risk_score,      \* detect_fraud's local counter
  sentiment,       \* what analyze_review_sentiment returned
  receipt_issues,  \* what validate_receipt_consistency returned
  now,             \* what datetime.now() returned in validate_receipt_consistency
  response,        \* the FraudDetectionResponse, or the HTTP 500
  sim              \* a call of calculate_string_similarity and its swapped call

vars == <<pc, request, fraud_reasons, risk_score, sentiment, receipt_issues, now, response, sim>>

NoRequest ==
  [review_text |-> <<>>,
   receipt_data |-> [businessName |-> NoneStr, businessAddress |-> NoneStr,
                     amount |-> NoneNum, date |-> NoneStr, confidence |-> Rat(0, 100)],
   business_details |-> [name |-> <<>>, address |-> NoneStr],
   user_reputation |-> 0]
NoSentiment == [positive |-> Rat(0, 1), negative |-> Rat(0, 1), neutral |-> Rat(0, 1)]
NoTime == [days |-> 0, secs |-> 0, aware |-> FALSE, offset |-> 0]
NoSim == [called |-> FALSE, str1 |-> <<>>, str2 |-> <<>>,
          forward |-> Rat(0, 1), backward |-> Rat(0, 1)]

Acc == [fraud_reasons |-> fraud_reasons, risk_score |-> risk_score]

Init ==
  /\ pc = "idle"
  /\ request = NoRequest
  /\ fraud_reasons = <<>>
  /\ risk_score = 0
  /\ sentiment = NoSentiment
  /\ receipt_issues = <<>>
  /\ now = NoTime
  /\ response = NoResponse
  /\ sim = NoSim

(***************************************************************************)
(* detect_fraud, check by check.                                           *)
(***************************************************************************)
\* main.py 257-263
Receive(req) ==
  /\ pc = "idle"
  /\ request' = req
  /\ fraud_reasons' = <<>>
  /\ risk_score' = 0
  /\ pc' = "text_quality"
  /\ UNCHANGED <<sentiment, receipt_issues, now, response, sim>>

Step(from, to, acc) ==
  /\ pc = from
  /\ fraud_reasons' = acc.fraud_reasons
  /\ risk_score' = acc.risk_score
  /\ pc' = to

AnalyzeTextQuality ==
  /\ Step("text_quality", "patterns", CheckTextQuality(Acc, request.review_text))
  /\ UNCHANGED <<sentiment, request, receipt_issues, now, response, sim>>

DetectPatterns ==
  /\ Step("patterns", "sentiment", CheckPatterns(Acc, request.review_text))
  /\ UNCHANGED <<sentiment, request, receipt_issues, now, response, sim>>

AnalyzeSentiment ==
  /\ sentiment' = analyze_review_sentiment(request.review_text)
  /\ Step("sentiment", "reputation", CheckSentiment(Acc, sentiment'))
  /\ UNCHANGED <<request, receipt_issues, now, response, sim>>

CheckUserReputation ==
  /\ Step("reputation", "receipt", CheckReputation(Acc, request.user_reputation))
  /\ UNCHANGED <<sentiment, request, receipt_issues, now, response, sim>>

\* validate_receipt_consistency reads the clock when the date is truthy and parses
ClockReadings(receipt_data) ==
  IF TruthyStr(receipt_data.date) /\ fromisoformat(ReplaceZ(receipt_data.date.val)).ok
    THEN Nows ELSE {now}

\* main.py 288-294.  request.receipt_data is a required model instance, which is
\* always truthy, so the branch is always taken.
ValidateReceipt ==
  /\ pc = "receipt"
  /\ \E clock \in ClockReadings(request.receipt_data) :
       LET validated == validate_receipt_consistency(request.receipt_data,
                                                     request.business_details, clock)
       IN /\ validated.raised = ""
          /\ now' = clock
          /\ receipt_issues' = validated.issues
          /\ Step("receipt", "confidence", CheckReceipt(Acc, validated.issues))
  /\ UNCHANGED <<sentiment, request, response, sim>>

\* main.py 314-316: the exception leaves validate_receipt_consistency and the
\* handler's except clause turns it into the HTTP 500.
ScoringFailed ==
  /\ pc = "receipt"
  /\ \E clock \in ClockReadings(request.receipt_data) :
       LET validated == validate_receipt_consistency(request.receipt_data,
                                                     request.business_details, clock)
       IN /\ validated.raised # ""
          /\ now' = clock
  /\ response' = ScoringFailedResponse
  /\ pc' = "failed"
  /\ UNCHANGED <<sentiment, request, fraud_reasons, risk_score, receipt_issues, sim>>

CheckConfidence ==
  /\ Step("confidence", "verdict",
          CheckReceiptConfidence(Acc, request.receipt_data.confidence))
  /\ UNCHANGED <<sentiment, request, receipt_issues, now, response, sim>>

\* main.py 301-312
Respond ==
  /\ pc = "verdict"
  /\ response' = FraudDetectionResponse(Acc)
  /\ pc' = "returned"
  /\ UNCHANGED <<sentiment, request, fraud_reasons, risk_score, receipt_issues, now, sim>>

\* Every entity is request-scoped: nothing of a request outlives it.
NextRequest ==
  /\ pc \in {"returned", "failed"}
  /\ pc' = "idle"
  /\ request' = NoRequest
  /\ fraud_reasons' = <<>>
  /\ risk_score' = 0
  /\ sentiment' = NoSentiment
  /\ receipt_issues' = <<>>
  /\ now' = NoTime
  /\ response' = NoResponse
  /\ UNCHANGED sim

Next ==
  \/ \E req \in Requests : Receive(req)
  \/ AnalyzeTextQuality
  \/ DetectPatterns
  \/ AnalyzeSentiment
  \/ CheckUserReputation
  \/ ValidateReceipt
  \/ ScoringFailed
  \/ CheckConfidence
  \/ Respond
  \/ NextRequest

Spec == Init /\ [][Next]_vars

(***************************************************************************)
(* calculate_string_similarity on its own: a call and the call with the    *)
(* arguments swapped, on every pair of strings of at most MaxLen           *)
(* characters.                                                             *)
(***************************************************************************)
SimCall(a, b) ==
  /\ ~sim.called
  /\ sim' = [called |-> TRUE, str1 |-> a, str2 |-> b,
             forward |-> calculate_string_similarity(a, b),
             backward |-> calculate_string_similarity(b, a)]
  /\ UNCHANGED <<sentiment, pc, request, fraud_reasons, risk_score, receipt_issues, now, response>>

SimReturn ==
  /\ sim.called
  /\ sim' = NoSim
  /\ UNCHANGED <<sentiment, pc, request, fraud_reasons, risk_score, receipt_issues, now, response>>

NextSim ==
  \/ \E a \in SimStrings, b \in SimStrings : SimCall(a, b)
  \/ SimReturn

SpecSim == Init /\ [][NextSim]_vars

(***************************************************************************)
(* The claims.                                                             *)
(***************************************************************************)
Bit(b) == IF b THEN 1 ELSE 0
CountMsg(reasons, msg) == Cardinality({i \in 1..Len(reasons) : reasons[i].msg = msg})

\* validate_receipt_consistency has returned its issues
Validated == pc \in {"confidence", "verdict", "returned"}
\* validate_receipt_consistency has been called: it returned, or it raised
ValidateCalled == Validated \/ pc = "failed"

\* C1: a request that completes returns riskScore = 25*[quality < 30]
\* + 10*len(patterns) + 15*[neutral > 0.8] + 20*[reputation < 30]
\* + 15*len(receipt issues) + 20*[receipt confidence < 0.5], the analyzers
\* taken on the request's own inputs; and a reputation below 30 makes the
\* score exactly 20 more than the same request scores with reputation 30.
C1_RiskScoreFormula ==
  pc = "returned" =>
    LET text == request.review_text
        issues == validate_receipt_consistency(request.receipt_data,
                                               request.business_details, now).issues
    IN /\ response.riskScore =
            25 * Bit(calculate_text_quality_score(text) < 30)
            + 10 * Len(detect_review_patterns(text))
            + 15 * Bit(RatLt(Rat(8, 10), analyze_review_sentiment(text).neutral))
            + 20 * Bit(request.user_reputation < 30)
            + 15 * Len(issues)
            + 20 * Bit(RatLt(request.receipt_data.confidence, Rat(5, 10)))
       /\ request.user_reputation < 30 =>
            response.riskScore =
              detect_fraud([request EXCEPT !.user_reputation = 30], now).riskScore + 20

\* a returned request with reputation 29 and something else flagged besides
C1_Witness ==
  /\ pc = "returned"
  /\ request.user_reputation = 29
  /\ Len(receipt_issues) > 0
  /\ response.riskScore > 35

\* C2: isFraudulent is riskScore > 60, and confidence is riskScore/100 up to
\* 100 and 1 from 100 on, so within [0, 1].
C2_VerdictAndConfidence ==
  pc = "returned" =>
    /\ response.isFraudulent = (response.riskScore > 60)
    /\ response.riskScore <= 100 =>
         RatEq(response.confidence, Rat(response.riskScore, 100))
    /\ response.riskScore >= 100 => RatEq(response.confidence, Rat(1, 1))
    /\ response.confidence.den > 0
    /\ 0 <= response.confidence.num
    /\ response.confidence.num <= response.confidence.den

\* a response with riskScore exactly 60, which is not fraudulent
C2_Witness ==
  pc = "returned" /\ response.riskScore = 60 /\ ~response.isFraudulent

\* C3: "Invalid amount in receipt" is emitted once when the amount is present
\* and <= 0, zero included, and not otherwise.
C3_InvalidAmountWhenNotPositive ==
  Validated =>
    CountMsg(receipt_issues, "Invalid amount in receipt") =
      Bit(request.receipt_data.amount.some /\ request.receipt_data.amount.val <= 0)

\* the instant of a parsed date, as a naive UTC datetime
Instant(d) ==
  LET secs == d.secs - 60 * d.offset
  IN [days |-> d.days + (IF secs < 0 THEN -1 ELSE IF secs >= 86400 THEN 1 ELSE 0),
      secs |-> (secs + 86400) % 86400]
\* a - b is more than n days
ExceedsDays(a, b, n) ==
  (a.days - b.days - n) * 86400 + (a.secs - b.secs) > 0

DateMsgs == {"Invalid date format in receipt", "Future date in receipt",
             "Receipt too old (>1 year)"}
DateReasons(reasons) ==
  LET kept == SelectSeq(reasons, LAMBDA r : r.msg \in DateMsgs)
  IN [i \in 1..Len(kept) |-> kept[i].msg]

\* C4: a present date yields the one date reason its priority picks:
\* malformed, else future, else older than 365 days, else none.
C4_DateReasonByPriority ==
  (ValidateCalled /\ request.receipt_data.date.some) =>
    LET parsed == fromisoformat(ReplaceZ(request.receipt_data.date.val))
    IN /\ Validated
       /\ DateReasons(receipt_issues) =
            IF ~parsed.ok THEN <<"Invalid date format in receipt">>
            ELSE IF Later(Instant(parsed), now) THEN <<"Future date in receipt">>
            ELSE IF ExceedsDays(now, Instant(parsed), 365)
              THEN <<"Receipt too old (>1 year)">>
            ELSE <<>>

\* C5: a well-formed date ending in 'Z' is accepted: validation returns, the
\* date is not reported malformed, and the request is answered.
C5_ZuluDateAccepted ==
  ( /\ ValidateCalled
    /\ request.receipt_data.date.some
    /\ Len(request.receipt_data.date.val) > 0
    /\ request.receipt_data.date.val[Len(request.receipt_data.date.val)] = "Z"
    /\ fromisoformat(ReplaceZ(request.receipt_data.date.val)).ok ) =>
    /\ pc # "failed"
    /\ response.status # 500
    /\ CountMsg(receipt_issues, "Invalid date format in receipt") = 0

IsJoesPair ==
  /\ request.business_details.name = JoesPizza
  /\ request.receipt_data.businessName = Some(JoesPizzeria)
JoesSimilarity == calculate_string_similarity(Lower(JoesPizzeria), Lower(JoesPizza))

\* C6 as stated: for "Joe's Pizza" and "Joes Pizzeria" the similarity is
\* >= 0.7 and no business-name mismatch is emitted.
C6_JoesPairMatches ==
  (Validated /\ IsJoesPair) =>
    /\ ~RatLt(JoesSimilarity, Rat(7, 10))
    /\ CountMsg(receipt_issues, "Business name mismatch") = 0

\* C6 amended: for "Joe's Pizza" and "Joes Pizzeria" the edit distance is 4,
\* the similarity 9/13 (0.69) < 0.7, and exactly one business-name mismatch
\* is emitted, carrying 0.69.
C6_JoesPairMismatches ==
  (Validated /\ IsJoesPair) =>
    /\ levenshtein_distance(Lower(JoesPizzeria), Lower(JoesPizza)) = 4
    /\ RatEq(JoesSimilarity, Rat(9, 13))
    /\ RatLt(JoesSimilarity, Rat(7, 10))
    /\ CountMsg(receipt_issues, "Business name mismatch") = 1
    /\ \E i \in 1..Len(receipt_issues) :
         receipt_issues[i] = Reason("Business name mismatch", <<69>>)

C6_Witness ==
  /\ Validated /\ IsJoesPair
  /\ CountMsg(receipt_issues, "Business name mismatch") = 1

\* C7: one business-name mismatch is emitted when both names were supplied,
\* be it as the empty string, and their lower-cased similarity is < 0.7;
\* none otherwise.  business.name is a required field: always supplied.
C7_MismatchWhenSupplied ==
  Validated =>
    CountMsg(receipt_issues, "Business name mismatch") =
      Bit(/\ request.receipt_data.businessName.some
          /\ RatLt(calculate_string_similarity(
                     Lower(request.receipt_data.businessName.val),
                     Lower(request.business_details.name)),
                   Rat(7, 10)))

\* C8: calculate_string_similarity(a, b) = calculate_string_similarity(b, a),
\* the value lies in [0, 1], and it is 0 when either string is empty.
C8_SimilaritySymmetricBounded ==
  sim.called =>
    /\ RatEq(sim.forward, sim.backward)
    /\ sim.forward.den > 0
    /\ 0 <= sim.forward.num /\ sim.forward.num <= sim.forward.den
    /\ (Len(sim.str1) = 0 \/ Len(sim.str2) = 0) => sim.forward.num = 0

\* two different strings of the same length: the tie of the length test
C8_Witness ==
  /\ sim.called
  /\ Len(sim.str1) = Len(sim.str2) /\ Len(sim.str1) > 1
  /\ sim.str1 # sim.str2
  /\ sim.forward.num > 0

SentimentDone == pc \notin {"idle", "text_quality", "patterns", "sentiment"}
Tokens == Len(Split(request.review_text))
SentimentSumIsOne ==
  /\ sentiment.positive.den = sentiment.negative.den
  /\ sentiment.negative.den = sentiment.neutral.den
  /\ sentiment.positive.num + sentiment.negative.num + sentiment.neutral.num
       = sentiment.neutral.den

\* C9 as stated: with at least one token, positive, negative and neutral sum
\* to exactly 1.
C9_SentimentSumsToOne ==
  (SentimentDone /\ Tokens >= 1) => SentimentSumIsOne

\* C9 amended: each value is a count over the token count; the three sum to 1
\* exactly when the matched words are no more than the tokens, and otherwise
\* neutral is 0 and the sum is matched/tokens > 1.  With no token the result
\* is {0, 0, 1}.
C9_SentimentSum ==
  SentimentDone =>
    LET matched == sentiment.positive.num + sentiment.negative.num
    IN /\ Tokens = 0 =>
            /\ sentiment.positive.num = 0 /\ sentiment.negative.num = 0
            /\ RatEq(sentiment.neutral, Rat(1, 1))
       /\ Tokens >= 1 =>
            /\ sentiment.positive.den = Tokens
            /\ sentiment.negative.den = Tokens
            /\ sentiment.neutral.den = Tokens
            /\ sentiment.neutral.num >= 0
            /\ matched <= Tokens => SentimentSumIsOne
            /\ matched > Tokens =>
                 (sentiment.neutral.num = 0 /\ ~SentimentSumIsOne)

\* a text whose matched sentiment words outnumber its tokens
C9_Witness ==
  /\ SentimentDone /\ Tokens >= 1
  /\ sentiment.positive.num + sentiment.negative.num > Tokens

\* C10: every reason came with 10, 15, 20 or 25 points and every point with
\* a reason: 10*len(fraudReasons) <= riskScore <= 25*len(fraudReasons),
\* riskScore is a multiple of 5, it is 0 exactly when there is no reason,
\* and a fraudulent outcome has at least 3 reasons.
C10_ReasonsAccountForScore ==
  pc = "returned" =>
    /\ 10 * Len(response.fraudReasons) <= response.riskScore
    /\ response.riskScore <= 25 * Len(response.fraudReasons)
    /\ response.riskScore % 5 = 0
    /\ (response.riskScore = 0) = (Len(response.fraudReasons) = 0)
    /\ response.isFraudulent => Len(response.fraudReasons) >= 3

\* a fraudulent outcome with no more than the 3 reasons it needs
C10_Witness ==
  /\ pc = "returned"
  /\ response.isFraudulent
  /\ Len(response.fraudReasons) = 3

=============================================================================
